---- MODULE Spec2Model ----
(***************************************************************************)
(* proxyWithPersist (src/src/App.tsx, lines 203-515): a valtio proxy whose *)
(* paths are loaded from, and written back to, a key/value storage engine. *)
(*                                                                         *)
(* Strings that the code takes apart (storage keys, paths) are sequences   *)
(* of one-character strings, so that startsWith, split, toPath, substring  *)
(* and concatenation are computed, not assumed.  JavaScript values that    *)
(* travel through pendingWrites and through JSON are tagged records        *)
(* [t |-> typeof-like tag, v |-> content].                                 *)
(***************************************************************************)
EXTENDS Integers, Sequences, FiniteSets, TLC

\* ------------------------------------------------------------------ bounds
MaxVal == 1
MaxMut == 2
MaxVersion == 1

\* ----------------------------------------------------------------- strings
Dash == <<"-">>
Dot == <<".">>
sApp == <<"a", "p", "p">>
sCount == <<"c", "o", "u", "n", "t">>
sPhotos == <<"p", "h", "o", "t", "o", "s">>
sEntities == <<"e", "n", "t", "i", "t", "i", "e", "s">>
sTasks == <<"t", "a", "s", "k", "s">>
sPersist == <<"_", "p", "e", "r", "s", "i", "s", "t">>
sP1 == <<"p", "1">>
sP2 == <<"p", "2">>
sEmpty == <<>>
sEntitiesTasks == sEntities \o Dot \o sTasks
sCountP1 == sCount \o Dot \o sP1

\* String.prototype.startsWith
startsWith(s, prefix) ==
  /\ Len(s) >= Len(prefix)
  /\ SubSeq(s, 1, Len(prefix)) = prefix

\* String.prototype.substring(n)
substring(s, n) == SubSeq(s, n + 1, Len(s))

\* index of the first occurrence of the character ch in s, 0 when there is none
indexOf(s, ch) ==
  IF \E i \in 1..Len(s) : s[i] = ch
  THEN CHOOSE i \in 1..Len(s) : s[i] = ch /\ \A j \in 1..(i - 1) : s[j] # ch
  ELSE 0

\* String.prototype.split(sep), for a one-character separator
RECURSIVE split(_, _)
split(s, ch) ==
  LET i == indexOf(s, ch)
  IN IF i = 0 THEN <<s>>
     ELSE <<SubSeq(s, 1, i - 1)>> \o split(SubSeq(s, i + 1, Len(s)), ch)

\* lodash toPath on a string with no brackets: the dot-separated segments; the
\* empty string has no segment
toPath(s) == IF s = <<>> THEN <<>> ELSE split(s, ".")

\* Array.prototype.join(sep)
RECURSIVE join(_, _)
join(parts, sep) ==
  IF Len(parts) = 0 THEN <<>>
  ELSE IF Len(parts) = 1 THEN parts[1]
  ELSE parts[1] \o sep \o join(Tail(parts), sep)

\* Array.prototype.slice(0, -1)
sliceInit(parts) == IF Len(parts) = 0 THEN <<>> ELSE SubSeq(parts, 1, Len(parts) - 1)

\* ---------------------------------------------------------- JavaScript values
Num(n) == [t |-> "number", v |-> n]
Obj(o) == [t |-> "object", v |-> o]
Str(x) == [t |-> "string", v |-> x]
JsNull == [t |-> "null", v |-> 0]
Undefined == [t |-> "undefined", v |-> 0]
EmptyObject == Obj(<<>>)

\* Object.keys
keysOf(val) == IF val.t = "object" THEN DOMAIN val.v ELSE {}

\* val[k]
prop(val, k) == IF k \in keysOf(val) THEN val.v[k] ELSE Undefined

\* lodash omit(val, k)
omit(val, k) == Obj([x \in keysOf(val) \ {k} |-> val.v[x]])

\* Object.assign(target, source): the own fields of source, one by one
assign(target, source) ==
  Obj([x \in keysOf(target) \cup keysOf(source) |->
        IF x \in keysOf(source) THEN source.v[x] ELSE target.v[x]])

\* lodash castPath: a string without "." (or one that is itself a key of the
\* object) is one key, the empty string included; otherwise toPath
castPath(s, object) ==
  IF indexOf(s, ".") = 0 \/ s \in keysOf(object) THEN <<s>> ELSE toPath(s)

\* lodash baseGet
RECURSIVE baseGet(_, _)
baseGet(val, segs) ==
  IF Len(segs) = 0 THEN val
  ELSE IF val.t \in {"undefined", "null"} THEN Undefined
  ELSE baseGet(prop(val, Head(segs)), Tail(segs))

\* lodash get(object, path)
get(object, path) == baseGet(object, castPath(path, object))

\* lodash baseSet: intermediate segments that are not objects become {}
RECURSIVE baseSet(_, _, _)
baseSet(val, segs, x) ==
  IF Len(segs) = 1
  THEN Obj([k \in keysOf(val) \cup {segs[1]} |->
             IF k = segs[1] THEN x ELSE val.v[k]])
  ELSE LET cur == prop(val, Head(segs))
           nested == IF cur.t = "object" THEN cur ELSE EmptyObject
       IN Obj([k \in keysOf(val) \cup {Head(segs)} |->
                IF k = Head(segs) THEN baseSet(nested, Tail(segs), x)
                ELSE val.v[k]])

\* lodash set(object, path, value)
set(object, path, x) == baseSet(object, castPath(path, object), x)

\* valtio snapshot: an immutable copy; unchanged parts keep their identity, so
\* that !== between two snapshots is inequality of content
snapshot(val) == val

\* JSON.stringify / JSON.parse on JSON-compatible values: the text is kept as
\* a record around the value it encodes
JSONstringify(val) == [json |-> val]
JSONparse(text) == text.json

\* --------------------------------------------------------------- the inputs
SingleFile == "SingleFile"
MultiFile == "MultiFile"

\* a strategy that is neither of the two
OtherStrategy == "Other"

\* inputs.name
name == sApp

\* inputs.name of another engine on the same storage: "app-2"
otherName == sApp \o Dash \o <<"2">>

\* inputs.initialState: the demo's count and photos, the README's entities.tasks
initialState ==
  Obj((sCount :> Num(0))
      @@ (sPhotos :> Obj(sP1 :> Num(0)))
      @@ (sEntities :> Obj(sTasks :> Obj(sP1 :> Num(0)))))

\* the values of inputs.persistStrategies that are explored: one strategy for
\* the whole object, or a map from dot paths to strategies
PersistStrategies ==
  { Str(SingleFile),
    Str(MultiFile),
    Obj((sCount :> SingleFile) @@ (sPhotos :> MultiFile)),
    Obj(sEntitiesTasks :> SingleFile),
    Obj(sEntitiesTasks :> MultiFile),
    Obj((sEmpty :> SingleFile) @@ (sCount :> SingleFile)),
    Obj((sEmpty :> SingleFile) @@ (sCount :> OtherStrategy)),
    Obj((sPhotos :> MultiFile) @@ (sEntitiesTasks :> MultiFile)),
    Obj((sEmpty :> SingleFile) @@ (sPhotos :> MultiFile)),
    Obj(sCountP1 :> SingleFile) }

\* Object.entries(typeof persistStrategies === 'string' ? {'': it} : it)
strategyEntries(ps) == IF ps.t = "string" THEN (sEmpty :> ps.v) ELSE ps.v

\* A faulty test, for C20 to tell from the real one: the keys are enumerated
\* whatever the strategies are.
needsAllKeysAlways(ps) == ps.t \in {"string", "object"}

\* persistStrategies === MultiFile || Object.values(it).includes(MultiFile)
needsAllKeys(ps) ==
  IF ps.t = "string" THEN ps.v = MultiFile
  ELSE \E p \in DOMAIN ps.v : ps.v[p] = MultiFile

\* the _persist record of a new proxy
initialPersist(version) ==
  Obj([version |-> version, status |-> "loading", loading |-> TRUE,
       loaded |-> FALSE, error |-> JsNull])

\* proxy({...initialState, _persist: {...}})
newProxy(version) ==
  Obj([k \in keysOf(initialState) \cup {sPersist} |->
        IF k = sPersist THEN initialPersist(version) ELSE initialState.v[k]])

\* ------------------------------------------------------- loadPath, its names
isPersistingMainObject(path) == path = sEmpty
filePath(path) == name \o Dash \o path
pathParts(path) == toPath(path)
pathStart(path) == join(sliceInit(pathParts(path)), <<>>)
pathKey(path) ==
  IF Len(pathParts(path)) = 0 THEN <<>> ELSE pathParts(path)[Len(pathParts(path))]
proxySubObject(tree, path) ==
  IF isPersistingMainObject(path) THEN tree ELSE get(tree, pathStart(path))

\* the key under which a child of a MultiFile path is written
leafFilePath(path, key) ==
  filePath(path) \o (IF isPersistingMainObject(path) THEN <<>> ELSE Dot) \o key

\* the enumerated keys that the MultiFile load of path reads
matchedKeys(keys, path) ==
  { k \in keys :
      /\ startsWith(k, name \o Dash)
      /\ IF isPersistingMainObject(path)
         THEN split(k, "-")[1] = name
         ELSE join(sliceInit(toPath(k)), Dot) = filePath(path) }

\* subscribe / subscribeKey need a proxy: on anything else they throw
canSubscribe(tree, path) == proxySubObject(tree, path).t = "object"

\* the value whose keys a MultiFile path diffs
leafValue(tree, path) ==
  IF isPersistingMainObject(path) THEN omit(snapshot(tree), sPersist)
  ELSE snapshot(prop(proxySubObject(tree, path), pathKey(path)))

\* snapshot(proxySubObject[pathKey]) throws unless it is handed a proxy
canSnapshotLeaf(tree, path) ==
  /\ canSubscribe(tree, path)
  /\ isPersistingMainObject(path) \/ prop(proxySubObject(tree, path), pathKey(path)).t = "object"

\* ------------------------------------------------------------------- state
VARIABLES
  inputs,         \* persistStrategies, version, migrate, and whether the
                  \* onBeforeBulkWrite hook defers bulkWrite
  storage,        \* the storage engine's content: key -> text
  proxyObject,    \* the state tree
  pendingWrites,  \* key -> un-stringified value
  prevValue,      \* per MultiFile path, the snapshot the next diff starts from
  allKeys,        \* the result of getAllKeys, once it has resolved
  pc,             \* the startup routine: getAllKeys, loading, loaded, rejected
  pathPc,         \* per path: getItem, reading, attached, or what it threw
  toRead,         \* per MultiFile path, the keys whose getItem is outstanding
  flushQueued,    \* bulkWrite calls that a deferring hook still owes
  inflight,       \* setItem/removeItem calls made and not yet completed, oldest first
  mutations,      \* caller mutation batches so far
  backendCalls,   \* how often each storage method has been called
  lastFlush,      \* the last bulkWrite: what was pending, what it issued
  lastBatch,      \* the last notified mutation batch and what it staged
  migrationsRun,  \* the keys of the migrate callbacks invoked, in order
  loadedCount,    \* how often status went from loading to loaded
  callerSet,      \* per place, the value a caller set last while status was loaded
  restarted,      \* a second engine has been built over the same storage
  first           \* what the first engine left behind, for the second

vars ==
  <<inputs, storage, proxyObject, pendingWrites, prevValue, allKeys, pc,
    pathPc, toRead, flushQueued, inflight, mutations, backendCalls,
    lastFlush, lastBatch, migrationsRun, loadedCount, callerSet, restarted,
    first>>

paths == DOMAIN strategyEntries(inputs.persistStrategies)
strategy(path) == strategyEntries(inputs.persistStrategies)[path]
status == proxyObject.v[sPersist].v.status

\* ---------------------------------------------------------- the write side
\* The observers and bulkWrite act on the record w of what they read and
\* write: pendingWrites, prevValue, flushQueued, inflight, backendCalls,
\* lastFlush, and the notes of one batch: staged (the entries it put into
\* pendingWrites), replaced (the keys that had an unflushed entry when it
\* staged them), requests (its onBeforeBulkWrite calls) and fired (the paths
\* whose callback went on to persist); overtook holds the keys it staged
\* while a backend call for the same key was in flight.

\* one entry of pendingWrites as bulkWrite turns it into a backend call
writeOf(file, value) ==
  IF value.t = "null"
  THEN [op |-> "removeItem", key |-> file, value |-> JSONstringify(JsNull)]
  ELSE [op |-> "setItem", key |-> file, value |-> JSONstringify(value)]

\* Object.entries(pendingWrites).map(...): one backend call per entry
RECURSIVE writesOf(_)
writesOf(pending) ==
  IF DOMAIN pending = {} THEN <<>>
  ELSE LET file == CHOOSE f \in DOMAIN pending : TRUE
       IN <<writeOf(file, pending[file])>>
          \o writesOf([k \in DOMAIN pending \ {file} |-> pending[k]])

\* A faulty bulkWrite, for C12 to tell from the real one: the entries are
\* written and stay in pendingWrites.
bulkWriteKeeping(w) ==
  LET issued == writesOf(w.pendingWrites)
      calls(op) == Cardinality({i \in DOMAIN issued : issued[i].op = op})
  IN [w EXCEPT
        !.inflight = @ \o issued,
        !.backendCalls = [@ EXCEPT !.setItem = @ + calls("setItem"),
                                   !.removeItem = @ + calls("removeItem")],
        !.lastFlush = [pending |-> w.pendingWrites, issued |-> issued, any |-> TRUE]]

\* A faulty bulkWrite, for C9 to tell from the real one: besides the entries
\* it also writes, on every call, an index of the keys it flushed.
bulkWriteWithIndex(w) ==
  LET issued == writesOf(w.pendingWrites)
                \o <<writeOf(name, Obj([k \in DOMAIN w.pendingWrites |-> Num(0)]))>>
      calls(op) == Cardinality({i \in DOMAIN issued : issued[i].op = op})
  IN [w EXCEPT
        !.pendingWrites = <<>>,
        !.inflight = @ \o issued,
        !.backendCalls = [@ EXCEPT !.setItem = @ + calls("setItem"),
                                   !.removeItem = @ + calls("removeItem")],
        !.lastFlush = [pending |-> w.pendingWrites, issued |-> issued, any |-> TRUE]]

\* bulkWrite with the default onBeforeWrite: every entry is deleted from
\* pendingWrites and its write is called at once
bulkWrite(w) ==
  LET issued == writesOf(w.pendingWrites)
      calls(op) == Cardinality({i \in DOMAIN issued : issued[i].op = op})
  IN [w EXCEPT
        !.pendingWrites = <<>>,
        !.inflight = @ \o issued,
        !.backendCalls = [@ EXCEPT !.setItem = @ + calls("setItem"),
                                   !.removeItem = @ + calls("removeItem")],
        !.lastFlush = [pending |-> w.pendingWrites, issued |-> issued, any |-> TRUE]]

\* A faulty hook, for C29 to tell from the real one: bulkWrite is put off
\* also when no hook was given.
onBeforeBulkWriteDebounced(w) ==
  [w EXCEPT !.requests = @ + 1, !.flushQueued = @ + 1]

\* inputs.onBeforeBulkWrite || (bulkWrite => bulkWrite())
onBeforeBulkWrite(w) ==
  LET asked == [w EXCEPT !.requests = @ + 1]
  IN IF inputs.deferred THEN [asked EXCEPT !.flushQueued = @ + 1]
     ELSE bulkWrite(asked)

\* A faulty staging, for C10 to tell from the real one: an entry that is
\* already pending for the file is kept.
stageKeepingFirst(w, file, value) ==
  [w EXCEPT
     !.pendingWrites =
       [k \in DOMAIN @ \cup {file} |->
          IF k = file /\ file \notin DOMAIN w.pendingWrites THEN value ELSE @[k]],
     !.staged =
       [k \in DOMAIN @ \cup {file} |-> IF k = file THEN value ELSE @[k]],
     !.replaced = IF file \in DOMAIN w.pendingWrites THEN @ \cup {file} ELSE @,
     !.overtook =
       IF \E i \in DOMAIN w.inflight : w.inflight[i].key = file
       THEN @ \cup {file} ELSE @]

\* pendingWrites[file] = value
stage(w, file, value) ==
  [w EXCEPT
     !.pendingWrites =
       [k \in DOMAIN @ \cup {file} |-> IF k = file THEN value ELSE @[k]],
     !.staged =
       [k \in DOMAIN @ \cup {file} |-> IF k = file THEN value ELSE @[k]],
     !.replaced = IF file \in DOMAIN w.pendingWrites THEN @ \cup {file} ELSE @,
     !.overtook =
       IF \E i \in DOMAIN w.inflight : w.inflight[i].key = file
       THEN @ \cup {file} ELSE @]

\* persistPath of a SingleFile path
persistPath(w, path, value) ==
  onBeforeBulkWrite(
    stage(w, filePath(path), IF value.t = "object" THEN snapshot(value) ELSE value))

\* the three key sets of persistLeaf
addedKeys(value, prev) == keysOf(value) \ keysOf(prev)
removedKeys(value, prev) == keysOf(prev) \ keysOf(value)
\* A faulty updatedKeys, for C2 to tell from the real one: prevValue is
\* overwritten before the comparison, so that a value is compared with itself.
updatedKeysAfterOverwrite(value, prev) ==
  { k \in (keysOf(value) \ addedKeys(value, prev)) \ removedKeys(value, prev) :
      value.v[k] # value.v[k] }

updatedKeys(value, prev) ==
  { k \in (keysOf(value) \ addedKeys(value, prev)) \ removedKeys(value, prev) :
      prev.v[k] # value.v[k] }

\* pendingWrites[leaf of key] = null, for every key of a set
RECURSIVE stageRemoved(_, _, _)
stageRemoved(w, path, ks) ==
  IF ks = {} THEN w
  ELSE LET k == CHOOSE x \in ks : TRUE
       IN stageRemoved(stage(w, leafFilePath(path, k), JsNull), path, ks \ {k})

\* pendingWrites[leaf of key] = value[key], for every key of a set
RECURSIVE stageValues(_, _, _, _)
stageValues(w, path, value, ks) ==
  IF ks = {} THEN w
  ELSE LET k == CHOOSE x \in ks : TRUE
       IN stageValues(stage(w, leafFilePath(path, k), value.v[k]), path, value, ks \ {k})

\* persistLeaf of a MultiFile path, on the tree as the mutation left it
persistLeaf(w, path, tree) ==
  LET value == leafValue(tree, path)
      prev == w.prevValue[path]
      added == addedKeys(value, prev)
      removed == removedKeys(value, prev)
      updated == updatedKeys(value, prev)
      w1 == [w EXCEPT !.prevValue[path] = leafValue(tree, path)]
  IN IF added # {} \/ removed # {} \/ updated # {}
     THEN onBeforeBulkWrite(
            stageValues(stageRemoved(w1, path, removed), path, value,
                        added \cup updated))
     ELSE w1

\* ------------------------------------------------------------ the observers
\* where subscribeKey(proxySubObject, pathKey, ...) listens: the key pathKey
\* of the object that get(proxyObject, pathStart) returned
watched(tree, path) == castPath(pathStart(path), tree) \o <<pathKey(path)>>

isPrefix(a, b) == Len(a) <= Len(b) /\ SubSeq(b, 1, Len(a)) = a

\* A faulty callback, for C6 to tell from the real one: the root observer
\* without its test for batches that touch _persist only.
callbackUnfiltered(w, path, tree, batch) ==
  IF isPersistingMainObject(path)
  THEN IF strategy(path) = SingleFile
       THEN persistPath([w EXCEPT !.fired = @ \cup {path}], path, tree)
       ELSE persistLeaf([w EXCEPT !.fired = @ \cup {path}], path, tree)
  ELSE IF \A loc \in batch : ~isPrefix(watched(tree, path), loc)
       THEN w
       ELSE IF strategy(path) = SingleFile
            THEN persistPath([w EXCEPT !.fired = @ \cup {path}], path,
                             baseGet(tree, watched(tree, path)))
            ELSE persistLeaf([w EXCEPT !.fired = @ \cup {path}], path, tree)

\* A faulty callback, for C18 to tell from the real one: the observer of a
\* path below the root hears every batch of the tree, whatever key it changes.
callbackUnkeyed(w, path, tree, batch) ==
  IF isPersistingMainObject(path)
  THEN IF \A loc \in batch : loc[1] = sPersist
       THEN w
       ELSE IF strategy(path) = SingleFile
            THEN persistPath([w EXCEPT !.fired = @ \cup {path}], path, tree)
            ELSE persistLeaf([w EXCEPT !.fired = @ \cup {path}], path, tree)
  ELSE IF strategy(path) = SingleFile
       THEN persistPath([w EXCEPT !.fired = @ \cup {path}], path,
                        baseGet(tree, watched(tree, path)))
       ELSE persistLeaf([w EXCEPT !.fired = @ \cup {path}], path, tree)

\* The callback that loadPath subscribed for path, run for one notified batch
\* of operations, given as the set of places it changed (op[1] of every
\* operation).  subscribe(proxyObject, ...) hears every batch, subscribeKey
\* the batches that change something at or under its key.
callback(w, path, tree, batch) ==
  IF isPersistingMainObject(path)
  THEN IF \A loc \in batch : loc[1] = sPersist
       THEN w
       ELSE IF strategy(path) = SingleFile
            THEN persistPath([w EXCEPT !.fired = @ \cup {path}], path, tree)
            ELSE persistLeaf([w EXCEPT !.fired = @ \cup {path}], path, tree)
  ELSE IF \A loc \in batch : ~isPrefix(watched(tree, path), loc)
       THEN w
       ELSE IF strategy(path) = SingleFile
            THEN persistPath([w EXCEPT !.fired = @ \cup {path}], path,
                             baseGet(tree, watched(tree, path)))
            ELSE persistLeaf([w EXCEPT !.fired = @ \cup {path}], path, tree)

\* every attached observer hears the batch
RECURSIVE notify(_, _, _, _)
notify(w, ps, tree, batch) ==
  IF ps = {} THEN w
  ELSE LET path == CHOOSE x \in ps : TRUE
       IN notify(callback(w, path, tree, batch), ps \ {path}, tree, batch)

\* the write side as the variables hold it, with the notes of a batch reset
current ==
  [pendingWrites |-> pendingWrites, prevValue |-> prevValue,
   flushQueued |-> flushQueued, inflight |-> inflight,
   backendCalls |-> backendCalls, lastFlush |-> lastFlush,
   staged |-> <<>>, replaced |-> {}, overtook |-> {}, requests |-> 0,
   fired |-> {}]

\* the variables take the write side w
becomes(w) ==
  /\ pendingWrites' = w.pendingWrites
  /\ prevValue' = w.prevValue
  /\ flushQueued' = w.flushQueued
  /\ inflight' = w.inflight
  /\ backendCalls' = w.backendCalls
  /\ lastFlush' = w.lastFlush

\* the notes of the batch that w went through
notes(kind, w) ==
  [kind |-> kind, staged |-> w.staged, replaced |-> w.replaced,
   overtook |-> w.overtook, requests |-> w.requests, fired |-> w.fired]

\* A faulty order, for C22 to tell from the real one: a SingleFile path has
\* its observer subscribed before its getItem is awaited.
attachedBeforeLoad == { path \in DOMAIN pathPc : pathPc[path] \in {"attached", "getItem"} }

\* the paths whose observer is subscribed
attached == { path \in DOMAIN pathPc : pathPc[path] = "attached" }

\* ------------------------------------------------------------- the storage
\* getItem: the text, or null when the key does not exist
getItem(key) == IF key \in DOMAIN storage THEN Str(storage[key]) ELSE JsNull

\* the records the storage may hold before the first engine is built: a whole
\* object as a root SingleFile engine wrote it when the initial state had no
\* photos yet, records of the other keys, and the count record of the engine
\* named otherName
storedRoot ==
  Obj([k \in (keysOf(initialState) \ {sPhotos}) \cup {sPersist} |->
        IF k = sPersist
        THEN Obj([version |-> 0, status |-> "loaded", loading |-> FALSE,
                  loaded |-> TRUE, error |-> JsNull])
        ELSE IF k = sCount THEN Num(2) ELSE initialState.v[k]])

InitialRecords ==
  (filePath(sEmpty) :> JSONstringify(storedRoot))
  @@ (filePath(sCount) :> JSONstringify(Num(1)))
  @@ (filePath(sPhotos) :> JSONstringify(Obj(sP1 :> Num(1))))
  @@ (leafFilePath(sPhotos, sP2) :> JSONstringify(Num(1)))
  @@ (filePath(sEntitiesTasks) :> JSONstringify(Obj(sP2 :> Num(1))))
  @@ (leafFilePath(sEntitiesTasks, sP2) :> JSONstringify(Num(1)))
  @@ (filePath(sCountP1) :> JSONstringify(Num(1)))
  @@ (otherName \o Dash \o sCount :> JSONstringify(Num(1)))

\* nothing, any one record, two records that reach the same part of the tree,
\* or a root record and a child of photos
InitialKeySets ==
  {{}}
  \cup { {k} : k \in DOMAIN InitialRecords }
  \cup { {filePath(sEmpty), filePath(sCount)},
         {filePath(sPhotos), leafFilePath(sPhotos, sP2)},
         {filePath(sEntitiesTasks), leafFilePath(sEntitiesTasks, sP2)},
         {filePath(sEmpty), leafFilePath(sPhotos, sP2)} }

\* a key that the strategies ps address: the file of a SingleFile path, or a
\* key that begins with the file of a MultiFile path
addressed(ps, key) ==
  \E path \in DOMAIN strategyEntries(ps) :
    IF strategyEntries(ps)[path] = SingleFile THEN key = filePath(path)
    ELSE strategyEntries(ps)[path] = MultiFile /\ startsWith(key, filePath(path))

\* the storage contents explored with the strategies ps
InitialStorages(ps) ==
  { [k \in ks |-> InitialRecords[k]] :
      ks \in { x \in InitialKeySets : \A k \in x : addressed(ps, k) } }

\* -------------------------------------------------------------- the startup
\* how a loadPath ends when it throws: subscribe, subscribeKey or snapshot
\* was handed something that is no proxy; a key that getAllKeys listed has no
\* file; the strategy is neither SingleFile nor MultiFile
Thrown == {"subscribeThrew", "fileMissing", "unknownStrategy"}

\* the MultiFile branch after its reads: prevValue is taken and the observer
\* subscribed, unless one of the two throws
leafAttaches(tree, path) == canSnapshotLeaf(tree, path)

\* every loadPath up to its first await, after allKeys is known: a SingleFile
\* path calls getItem, a MultiFile path calls getItem for its matched keys; a
\* MultiFile path with no matched key goes on to subscribe
startedPc(ps, keys, tree) ==
  [path \in DOMAIN strategyEntries(ps) |->
     IF strategyEntries(ps)[path] = SingleFile THEN "getItem"
     ELSE IF strategyEntries(ps)[path] # MultiFile THEN "unknownStrategy"
     ELSE IF matchedKeys(keys, path) # {} THEN "reading"
     ELSE IF leafAttaches(tree, path) THEN "attached"
     ELSE "subscribeThrew"]

startedReads(ps, keys) ==
  [path \in { x \in DOMAIN strategyEntries(ps) : strategyEntries(ps)[x] = MultiFile } |->
     matchedKeys(keys, path)]

startedPrev(ps, keys, tree) ==
  [path \in { x \in DOMAIN strategyEntries(ps) :
                /\ strategyEntries(ps)[x] = MultiFile
                /\ matchedKeys(keys, x) = {}
                /\ leafAttaches(tree, x) } |->
     leafValue(tree, path)]

\* the getItem calls that the started loadPaths have made
startedGetItems(ps, keys) ==
  Cardinality({ x \in DOMAIN strategyEntries(ps) : strategyEntries(ps)[x] = SingleFile })
  + Cardinality({ pk \in (DOMAIN strategyEntries(ps)) \X keys :
                    /\ strategyEntries(ps)[pk[1]] = MultiFile
                    /\ pk[2] \in matchedKeys(keys, pk[1]) })

\* Promise.all over the loadPaths rejects as soon as one of them throws
outcome(ppc) ==
  IF \E path \in DOMAIN ppc : ppc[path] \in Thrown THEN "rejected" ELSE "loading"

\* proxyWithPersist(inputs) up to its return: the proxy, the empty
\* pendingWrites, and the startup routine run to its first await
Constructed(inp, tree, pw, prev, keys, ppc, ppath, reads, queued, calls) ==
  /\ tree = newProxy(inp.version)
  /\ pw = <<>>
  /\ keys = {}
  /\ queued = 0
  /\ IF needsAllKeys(inp.persistStrategies)
     THEN /\ ppc = "getAllKeys"
          /\ ppath = <<>>
          /\ reads = <<>>
          /\ prev = <<>>
          /\ calls = [getItem |-> 0, setItem |-> 0, removeItem |-> 0, getAllKeys |-> 1]
     ELSE /\ ppath = startedPc(inp.persistStrategies, {}, tree)
          /\ ppc = outcome(ppath)
          /\ reads = startedReads(inp.persistStrategies, {})
          /\ prev = startedPrev(inp.persistStrategies, {}, tree)
          /\ calls = [getItem |-> startedGetItems(inp.persistStrategies, {}),
                      setItem |-> 0, removeItem |-> 0, getAllKeys |-> 0]

NoFlush == [pending |-> <<>>, issued |-> <<>>, any |-> FALSE]
NoBatch ==
  [kind |-> "none", staged |-> <<>>, replaced |-> {}, overtook |-> {},
   requests |-> 0, fired |-> {}]
NoFirst == [tree |-> EmptyObject, callerSet |-> <<>>, writes |-> 0]

Init ==
  /\ inputs \in [persistStrategies : PersistStrategies, version : {MaxVersion},
                 migrate : {1..MaxVersion}, deferred : BOOLEAN]
  /\ storage \in InitialStorages(inputs.persistStrategies)
  /\ Constructed(inputs, proxyObject, pendingWrites, prevValue, allKeys, pc,
                 pathPc, toRead, flushQueued, backendCalls)
  /\ inflight = <<>>
  /\ mutations = 0
  /\ lastFlush = NoFlush
  /\ lastBatch = NoBatch
  /\ migrationsRun = <<>>
  /\ loadedCount = 0
  /\ callerSet = <<>>
  /\ restarted = FALSE
  /\ first = NoFirst

\* getAllKeys resolves, and every loadPath runs to its first await
getAllKeysDone ==
  /\ pc = "getAllKeys"
  /\ allKeys' = DOMAIN storage
  /\ pathPc' = startedPc(inputs.persistStrategies, allKeys', proxyObject)
  /\ pc' = outcome(pathPc')
  /\ toRead' = startedReads(inputs.persistStrategies, allKeys')
  /\ prevValue' = startedPrev(inputs.persistStrategies, allKeys', proxyObject)
  /\ backendCalls' =
       [backendCalls EXCEPT
          !.getItem = @ + startedGetItems(inputs.persistStrategies, allKeys')]
  /\ UNCHANGED <<inputs, storage, proxyObject, pendingWrites, flushQueued,
                 inflight, mutations, lastFlush, lastBatch, migrationsRun,
                 loadedCount, callerSet, restarted, first>>

\* 1 when a write to the tree took status from loading to loaded
becameLoaded(before, after) ==
  IF before.v[sPersist].v.status = "loading" /\ after.v[sPersist].v.status = "loaded"
  THEN 1 ELSE 0

\* the SingleFile branch from the moment getItem resolves: the stored value
\* is merged into (root) or set at (other paths) the tree, and the observer
\* is subscribed
\* A faulty reconciliation, for C14 to tell from the real one: a path that
\* merges its record marks the engine as loading again.
reconciledMarkingLoading(tree, path, persistedString) ==
  IF persistedString.t = "null" THEN tree
  ELSE IF isPersistingMainObject(path)
       THEN assign(tree, JSONparse(persistedString.v))
       ELSE set(set(tree, path, JSONparse(persistedString.v)), sPersist,
                initialPersist(tree.v[sPersist].v.version))

\* A faulty reconciliation, for C23 to tell from the real one: below the root
\* the stored fields are merged into the value that is there.
reconciledMerging(tree, path, persistedString) ==
  IF persistedString.t = "null" THEN tree
  ELSE IF isPersistingMainObject(path)
       THEN assign(tree, JSONparse(persistedString.v))
       ELSE IF get(tree, path).t = "object" /\ JSONparse(persistedString.v).t = "object"
            THEN set(tree, path, assign(get(tree, path), JSONparse(persistedString.v)))
            ELSE set(tree, path, JSONparse(persistedString.v))

reconciled(tree, path, persistedString) ==
  IF persistedString.t = "null" THEN tree
  ELSE IF isPersistingMainObject(path)
       THEN assign(tree, JSONparse(persistedString.v))
       ELSE set(tree, path, JSONparse(persistedString.v))

\* the places that a load writes: every own field of a root record, or the
\* one place that set reaches
loadedPlaces(tree, path, persistedValue) ==
  IF isPersistingMainObject(path) THEN { <<k>> : k \in keysOf(persistedValue) }
  ELSE { castPath(path, tree) }

\* the operations valtio reports of a write: storing the primitive that is
\* there already is none
changedPlaces(before, after, places) ==
  { loc \in places :
      baseGet(after, loc).t = "object" \/ baseGet(before, loc) # baseGet(after, loc) }

\* the observers subscribed so far hear what a load wrote
heard(batch, tree) ==
  IF batch = {} \/ attached = {} THEN current ELSE notify(current, attached, tree, batch)

loadPathSingleFile(path) ==
  /\ path \in DOMAIN pathPc
  /\ pathPc[path] = "getItem"
  /\ LET persistedString == getItem(filePath(path))
         batch == IF persistedString.t = "null" THEN {}
                  ELSE changedPlaces(proxyObject, proxyObject',
                         loadedPlaces(proxyObject, path, JSONparse(persistedString.v)))
         w == heard(batch, proxyObject')
     IN /\ proxyObject' = reconciled(proxyObject, path, persistedString)
        /\ becomes(w)
        /\ lastBatch' = IF batch = {} \/ attached = {} THEN lastBatch ELSE notes("load", w)
  /\ pathPc' = [pathPc EXCEPT ![path] =
                  IF canSubscribe(proxyObject, path) THEN "attached" ELSE "subscribeThrew"]
  /\ pc' = IF pc = "loading" THEN outcome(pathPc') ELSE pc
  /\ loadedCount' = loadedCount + becameLoaded(proxyObject, proxyObject')
  /\ UNCHANGED <<inputs, storage, allKeys, toRead, mutations, migrationsRun,
                 callerSet, restarted, first>>

\* one getItem of the MultiFile branch resolves: a missing file throws, a
\* found one is set into the tree at the key without "<name>-"; after the
\* last one prevValue is taken and the observer subscribed
loadPathMultiFile(path, key) ==
  /\ path \in DOMAIN toRead
  /\ key \in toRead[path]
  /\ toRead' = [toRead EXCEPT ![path] = @ \ {key}]
  /\ LET persistedString == getItem(key)
         place == substring(key, Len(name) + Len(Dash))
         batch == IF persistedString.t = "null" THEN {}
                  ELSE changedPlaces(proxyObject, proxyObject',
                                     {castPath(place, proxyObject)})
         w == heard(batch, proxyObject')
         last == toRead'[path] = {} /\ pathPc[path] = "reading"
     IN /\ proxyObject' =
             IF persistedString.t = "null" THEN proxyObject
             ELSE set(proxyObject, place, JSONparse(persistedString.v))
        /\ pathPc' =
             [pathPc EXCEPT ![path] =
                IF persistedString.t = "null" THEN "fileMissing"
                ELSE IF ~last THEN @
                ELSE IF leafAttaches(proxyObject', path) THEN "attached"
                ELSE "subscribeThrew"]
        /\ becomes(
             IF persistedString.t # "null" /\ last /\ leafAttaches(proxyObject', path)
             THEN [w EXCEPT !.prevValue =
                     [x \in DOMAIN @ \cup {path} |->
                        IF x = path THEN leafValue(proxyObject', path) ELSE @[x]]]
             ELSE w)
        /\ lastBatch' = IF batch = {} \/ attached = {} THEN lastBatch ELSE notes("load", w)
  /\ pc' = IF pc = "loading" THEN outcome(pathPc') ELSE pc
  /\ loadedCount' = loadedCount + becameLoaded(proxyObject, proxyObject')
  /\ UNCHANGED <<inputs, storage, allKeys, mutations, migrationsRun, callerSet,
                 restarted, first>>

\* every loadPath has come to its end, by subscribing or by throwing, and no
\* read is outstanding
loadsFinished ==
  /\ pc # "getAllKeys"
  /\ \A path \in DOMAIN pathPc : pathPc[path] \in {"attached"} \cup Thrown
  /\ \A path \in DOMAIN toRead : toRead[path] = {}

\* A faulty status write, for C15 to tell from the real one: status is set
\* and the two flags are forgotten.
statusWriteWithoutFlags(persist) == Obj([persist.v EXCEPT !.status = "loaded"])

\* {loaded: true, loading: false, status: 'loaded'} assigned to _persist
statusWrite(persist) ==
  Obj([persist.v EXCEPT !.loaded = TRUE, !.loading = FALSE, !.status = "loaded"])

\* Object.assign(proxyObject._persist, {loaded: true, loading: false,
\* status: 'loaded'}), after Promise.all over the loadPaths has resolved; the
\* observers hear a batch whose operations are all under _persist
setLoaded ==
  /\ pc = "loading"
  /\ \A path \in DOMAIN pathPc : pathPc[path] = "attached"
  /\ pc' = "loaded"
  /\ proxyObject' = Obj([proxyObject.v EXCEPT ![sPersist] = statusWrite(@)])
  /\ loadedCount' = loadedCount + becameLoaded(proxyObject, proxyObject')
  /\ LET batch == IF proxyObject' = proxyObject THEN {} ELSE {<<sPersist>>}
         w == IF batch = {} THEN current
              ELSE notify(current, attached, proxyObject', batch)
     IN /\ becomes(w)
        /\ lastBatch' = notes("status", w)
  /\ UNCHANGED <<inputs, storage, allKeys, pathPc, toRead, mutations,
                 migrationsRun, callerSet, restarted, first>>

\* ------------------------------------------------------------------ callers
ChildKeys == {sP1, sP2}
Scalars == { Num(n) : n \in 0..MaxVal }
\* a container after its one child p1 was kept, changed, set to null or
\* deleted, and a child p2 added or not
Containers ==
  { Obj(f) : f \in { <<>>, sP1 :> Num(0), sP1 :> Num(1), sP1 :> JsNull, sP2 :> Num(1),
                     (sP1 :> Num(0)) @@ (sP2 :> Num(1)) } }

\* the places a caller writes, and the values it writes there
Places == {<<sCount>>, <<sEntities, sTasks>>}
valuesAt(loc) == IF loc = <<sCount>> THEN Scalars ELSE Containers

\* A caller changes the tree at loc in one batch (for a container: any
\* number of its children set or deleted); the subscribed observers run.
mutate(loc, val) ==
  /\ ~restarted
  /\ mutations < MaxMut
  /\ baseGet(proxyObject, loc) # val
  /\ mutations' = mutations + 1
  /\ proxyObject' = baseSet(proxyObject, loc, val)
  /\ callerSet' =
       IF status = "loaded"
       THEN [x \in DOMAIN callerSet \cup {loc} |-> IF x = loc THEN val ELSE callerSet[x]]
       ELSE [x \in DOMAIN callerSet \ {loc} |-> callerSet[x]]
  /\ LET w == notify(current, attached, proxyObject', {loc})
     IN /\ becomes(w)
        /\ lastBatch' = notes("caller", w)
  /\ UNCHANGED <<inputs, storage, allKeys, pc, pathPc, toRead, migrationsRun,
                 loadedCount, restarted, first>>

\* a deferring onBeforeBulkWrite hook calls the bulkWrite it was handed
flush ==
  /\ flushQueued > 0
  /\ becomes(bulkWrite([current EXCEPT !.flushQueued = @ - 1]))
  /\ UNCHANGED <<inputs, storage, proxyObject, allKeys, pc, pathPc, toRead,
                 mutations, lastBatch, migrationsRun, loadedCount, callerSet,
                 restarted, first>>

\* A faulty completion, for C11 to tell from the real one: when the call for
\* a key completes, the pending entry of that key is cleared with it.
writeDoneClearing ==
  /\ inflight # <<>>
  /\ inflight' = Tail(inflight)
  /\ LET call == Head(inflight)
     IN /\ storage' =
             IF call.op = "removeItem"
             THEN [k \in DOMAIN storage \ {call.key} |-> storage[k]]
             ELSE [k \in DOMAIN storage \cup {call.key} |->
                     IF k = call.key THEN call.value ELSE storage[k]]
        /\ pendingWrites' = [k \in DOMAIN pendingWrites \ {call.key} |-> pendingWrites[k]]
  /\ UNCHANGED <<inputs, proxyObject, prevValue, allKeys, pc,
                 pathPc, toRead, flushQueued, mutations, backendCalls,
                 lastFlush, lastBatch, migrationsRun, loadedCount, callerSet,
                 restarted, first>>

\* the storage engine completes a setItem or a removeItem; it completes the
\* calls in the order in which they were made
writeDone ==
  /\ inflight # <<>>
  /\ inflight' = Tail(inflight)
  /\ LET call == Head(inflight)
     IN storage' =
          IF call.op = "removeItem"
          THEN [k \in DOMAIN storage \ {call.key} |-> storage[k]]
          ELSE [k \in DOMAIN storage \cup {call.key} |->
                  IF k = call.key THEN call.value ELSE storage[k]]
  /\ UNCHANGED <<inputs, proxyObject, pendingWrites, prevValue, allKeys, pc,
                 pathPc, toRead, flushQueued, mutations, backendCalls,
                 lastFlush, lastBatch, migrationsRun, loadedCount, callerSet,
                 restarted, first>>

\* a storage engine whose setItem and removeItem return promises may complete
\* a call before the calls that were made before it
writeDoneAnyOrder(i) ==
  /\ i \in DOMAIN inflight
  /\ i > 1
  /\ inflight' = SubSeq(inflight, 1, i - 1) \o SubSeq(inflight, i + 1, Len(inflight))
  /\ LET call == inflight[i]
     IN storage' =
          IF call.op = "removeItem"
          THEN [k \in DOMAIN storage \ {call.key} |-> storage[k]]
          ELSE [k \in DOMAIN storage \cup {call.key} |->
                  IF k = call.key THEN call.value ELSE storage[k]]
  /\ UNCHANGED <<inputs, proxyObject, pendingWrites, prevValue, allKeys, pc,
                 pathPc, toRead, flushQueued, mutations, backendCalls,
                 lastFlush, lastBatch, migrationsRun, loadedCount, callerSet,
                 restarted, first>>

\* A faulty failure handling, for C17 to tell from the real one: the entry of
\* the failed call is restored unless the key has been staged again, and a
\* flush is requested for it (the TODO in bulkWrite).
writeFailedRestoring ==
  /\ inflight # <<>>
  /\ inflight' = Tail(inflight)
  /\ LET call == Head(inflight)
     IN pendingWrites' =
          [k \in DOMAIN pendingWrites \cup {call.key} |->
             IF k \in DOMAIN pendingWrites THEN pendingWrites[k]
             ELSE IF call.op = "removeItem" THEN JsNull ELSE JSONparse(call.value)]
  /\ flushQueued' = flushQueued + 1
  /\ UNCHANGED <<inputs, storage, proxyObject, prevValue, allKeys, pc,
                 pathPc, toRead, mutations, backendCalls,
                 lastFlush, lastBatch, migrationsRun, loadedCount, callerSet,
                 restarted, first>>

\* the storage engine fails a setItem or a removeItem: the promise that
\* bulkWrite returned rejects, and nobody handles it
writeFailed ==
  /\ inflight # <<>>
  /\ inflight' = Tail(inflight)
  /\ UNCHANGED <<inputs, storage, proxyObject, pendingWrites, prevValue, allKeys,
                 pc, pathPc, toRead, flushQueued, mutations, backendCalls,
                 lastFlush, lastBatch, migrationsRun, loadedCount, callerSet,
                 restarted, first>>

\* the storage is shared (window.localStorage): a key that getAllKeys has
\* listed is removed by somebody else before its getItem resolves
removedElsewhere(key) ==
  /\ \E path \in DOMAIN toRead : key \in toRead[path]
  /\ key \in DOMAIN storage
  /\ storage' = [k \in DOMAIN storage \ {key} |-> storage[k]]
  /\ UNCHANGED <<inputs, proxyObject, pendingWrites, prevValue, allKeys, pc,
                 pathPc, toRead, flushQueued, inflight, mutations, backendCalls,
                 lastFlush, lastBatch, migrationsRun, loadedCount, callerSet,
                 restarted, first>>

\* the first engine is idle; a second engine is built with the same inputs
\* over the same storage
restart ==
  /\ ~restarted
  /\ loadsFinished
  /\ pc \in {"loaded", "rejected"}
  /\ DOMAIN pendingWrites = {}
  /\ inflight = <<>>
  /\ flushQueued = 0
  /\ restarted' = TRUE
  /\ first' = [tree |-> proxyObject, callerSet |-> callerSet,
               writes |-> backendCalls.setItem + backendCalls.removeItem]
  /\ Constructed(inputs, proxyObject', pendingWrites', prevValue', allKeys',
                 pc', pathPc', toRead', flushQueued', backendCalls')
  /\ lastFlush' = NoFlush
  /\ lastBatch' = NoBatch
  /\ loadedCount' = 0
  /\ callerSet' = <<>>
  /\ UNCHANGED <<inputs, storage, inflight, mutations, migrationsRun>>

Next ==
  \/ getAllKeysDone
  \/ \E path \in DOMAIN pathPc : loadPathSingleFile(path)
  \/ \E path \in DOMAIN toRead : \E key \in toRead[path] : loadPathMultiFile(path, key)
  \/ setLoaded
  \/ \E loc \in Places : \E val \in valuesAt(loc) : mutate(loc, val)
  \/ flush
  \/ writeDone

Spec == Init /\ [][Next]_vars

\* the same, with a second engine built once the first is idle
NextRestart == Next \/ restart
SpecRestart == Init /\ [][NextRestart]_vars

\* the same as Spec, with a storage engine whose writes may fail and whose
\* keys may go away between enumeration and read
NextFailure ==
  \/ Next
  \/ writeFailed
  \/ \E key \in DOMAIN storage : removedElsewhere(key)
SpecFailure == Init /\ [][NextFailure]_vars

\* the same as Spec, with a storage engine that completes its calls in any order
NextAnyOrder == Next \/ \E i \in DOMAIN inflight : writeDoneAnyOrder(i)
SpecAnyOrder == Init /\ [][NextAnyOrder]_vars

\* ================================================================ properties
rootWholeValue == sEmpty \in paths /\ strategy(sEmpty) = SingleFile

\* the container of a path as a caller sees it: the tree without _persist for
\* the root, the value at the path otherwise
containerAt(tree, path) ==
  IF path = sEmpty THEN omit(tree, sPersist) ELSE baseGet(tree, toPath(path))

\* ------------------------------------------------------------------------ C1
\* C1: for a configured non-root WholeValue path p, if the first engine has
\* reached Loaded, a caller then set p to v and the resulting flush completed,
\* then a second engine built with the same name over the same storage holds
\* v at p once its load has completed.
C1_RoundTripWholeValue ==
  (restarted /\ loadsFinished) =>
    \A path \in paths :
      (path # sEmpty /\ strategy(path) = SingleFile
       /\ toPath(path) \in DOMAIN first.callerSet)
      => baseGet(proxyObject, toPath(path)) = first.callerSet[toPath(path)]

\* ------------------------------------------------------------------------ C2
\* the entries the diff of two snapshots of a KeyedChildren container calls
\* for: a tombstone at the child key of every key that is gone, the current
\* value at the child key of every key that is new or changed
diffEntries(path, prev, cur) ==
  LET gone == keysOf(prev) \ keysOf(cur)
      put == { k \in keysOf(cur) : k \notin keysOf(prev) \/ prev.v[k] # cur.v[k] }
  IN [file \in { leafFilePath(path, k) : k \in gone \cup put } |->
        LET k == CHOOSE x \in gone \cup put : leafFilePath(path, x) = file
        IN IF k \in gone THEN JsNull ELSE cur.v[k]]

\* C2: on every observed change of a KeyedChildren container the staged
\* entries are exactly a tombstone at the child storage key of every key of
\* the previous snapshot that is not in the current one, and the current value
\* at the child storage key of every key that is new or whose value differs;
\* nothing is staged for any other key.
C2_DiffCorrectness ==
  [][\A path \in paths :
       (strategy(path) = MultiFile /\ proxyObject' # proxyObject
        /\ lastBatch'.fired = {path})
       => lastBatch'.staged =
            diffEntries(path, prevValue[path], containerAt(proxyObject', path))]_vars

\* C2 happens: a caller's batch on a KeyedChildren container both removed a
\* child and added or changed one, and the observer staged for both
C2_Witness ==
  /\ lastBatch.kind = "caller"
  /\ \E path \in lastBatch.fired : strategy(path) = MultiFile
  /\ \E f, g \in DOMAIN lastBatch.staged :
       lastBatch.staged[f] = JsNull /\ lastBatch.staged[g] # JsNull

\* ------------------------------------------------------------------------ C3
RECURSIVE ascending(_)
ascending(S) ==
  IF S = {} THEN <<>>
  ELSE LET m == CHOOSE x \in S : \A y \in S : x <= y
       IN <<m>> \o ascending(S \ {m})

\* the version that storage holds: the one inside a root record, 0 without one
persistedVersion ==
  IF filePath(sEmpty) \in DOMAIN storage
     /\ sPersist \in keysOf(JSONparse(storage[filePath(sEmpty)]))
  THEN JSONparse(storage[filePath(sEmpty)]).v[sPersist].v.version
  ELSE 0

\* C3: during startup every migration callback whose key k satisfies
\* persistedVersion < k <= configured version is invoked exactly once, in
\* ascending order of k, and no other callback is invoked.  Stated of the
\* first engine once it is loaded and before it has written anything.
C3_MigrationOrdering ==
  (pc = "loaded" /\ ~restarted /\ backendCalls.setItem = 0)
  => migrationsRun =
       ascending({ k \in inputs.migrate : persistedVersion < k /\ k <= inputs.version })

\* ------------------------------------------------------------------------ C4
\* C4: the status is Loading after construction; provided no load fails, once
\* every configured path has finished loading and the startup routine has
\* ended, the status is Loaded; the change from Loading to Loaded happens
\* exactly once, for every configuration of paths and strategies.
C4_StatusTransition ==
  /\ loadedCount = 0 =>
       /\ status = "loading"
       /\ proxyObject.v[sPersist].v.loading
       /\ ~proxyObject.v[sPersist].v.loaded
  /\ (/\ loadsFinished
      /\ pc # "loading"
      /\ \A path \in DOMAIN pathPc : pathPc[path] \notin {"fileMissing", "unknownStrategy"})
     => /\ status = "loaded"
        /\ ~proxyObject.v[sPersist].v.loading
        /\ proxyObject.v[sPersist].v.loaded
        /\ loadedCount = 1
  /\ loadedCount <= 1

\* ------------------------------------------------------------------------ C5
\* C5: in every reachable state, status is 'loaded' only if the load of every
\* configured path has completed and its observer is attached.
C5_LoadedOnlyWhenAllAttached ==
  status = "loaded" =>
    /\ pc # "getAllKeys"
    /\ \A path \in paths : path \in attached

\* ------------------------------------------------------------------------ C6
\* C6: under the root WholeValue strategy a batch whose operations all touch
\* _persist only stages nothing and requests no flush; the engine's own
\* Loading-to-Loaded status write causes no backend write.
C6_SelfWriteExclusion ==
  [][(rootWholeValue /\ pc = "loading" /\ pc' = "loaded")
     => /\ pendingWrites' = pendingWrites
        /\ flushQueued' = flushQueued
        /\ inflight' = inflight
        /\ backendCalls' = backendCalls
        /\ lastBatch'.staged = <<>>
        /\ lastBatch'.requests = 0]_vars

\* C6 happens: the root WholeValue observer was subscribed when the engine
\* wrote its status, and that write did change _persist
C6_Witness ==
  /\ rootWholeValue
  /\ sEmpty \in attached
  /\ lastBatch.kind = "status"
  /\ loadedCount = 1
  /\ filePath(sEmpty) \notin DOMAIN storage

\* ------------------------------------------------------------------------ C7
\* C7: every value staged, and every payload handed to setItem, for the root
\* WholeValue record is the whole tree without _persist; no root record that
\* the engine writes contains a _persist field.
C7_RootRecordExcludesPersist ==
  rootWholeValue =>
    /\ filePath(sEmpty) \in DOMAIN pendingWrites
         => sPersist \notin keysOf(pendingWrites[filePath(sEmpty)])
    /\ filePath(sEmpty) \in DOMAIN lastBatch.staged
         => sPersist \notin keysOf(lastBatch.staged[filePath(sEmpty)])
    /\ \A i \in DOMAIN inflight :
         (inflight[i].key = filePath(sEmpty) /\ inflight[i].op = "setItem")
         => sPersist \notin keysOf(JSONparse(inflight[i].value))

\* ------------------------------------------------------------------------ C8
\* C8: two engines with the same configuration built over the same storage
\* content, with no write to storage in between, hold equal trees (ignoring
\* _persist) once both loads have completed, for any order in which the
\* per-path reads complete.  Stated of a first engine that no caller touched
\* and a second engine, neither of which has written.
C8_IdempotentReload ==
  (restarted /\ loadsFinished /\ mutations = 0 /\ first.writes = 0
   /\ backendCalls.setItem + backendCalls.removeItem = 0)
  => omit(proxyObject, sPersist) = omit(first.tree, sPersist)

\* ------------------------------------------------------------------------ C9
\* C9: a flush that finds the pending set empty performs no backend call and
\* leaves the pending set empty.
C9_NoOpFlush ==
  [][(flushQueued' = flushQueued - 1 /\ DOMAIN pendingWrites = {})
     => /\ backendCalls' = backendCalls
        /\ inflight' = inflight
        /\ DOMAIN pendingWrites' = {}]_vars

\* C9 happens: bulkWrite has run on an empty pending set
C9_Witness ==
  /\ lastFlush.any
  /\ DOMAIN lastFlush.pending = {}
  /\ lastFlush.issued = <<>>

\* ----------------------------------------------------------------------- C10
\* the backend calls of a flush for one key
callsFor(issued, file) == { i \in DOMAIN issued : issued[i].key = file }

\* C10: staging a value or a tombstone for a key replaces the unflushed entry
\* of that key, and a flush issues exactly one backend call for every pending
\* key, with the payload staged last: removeItem for a tombstone, setItem of
\* the encoded value otherwise.
C10_LastWriterWins ==
  [][/\ (inputs.deferred /\ proxyObject' # proxyObject)
        => \A file \in DOMAIN lastBatch'.staged :
             /\ file \in DOMAIN pendingWrites'
             /\ pendingWrites'[file] = lastBatch'.staged[file]
     /\ flushQueued' = flushQueued - 1
        => \A file \in DOMAIN pendingWrites :
             /\ Cardinality(callsFor(lastFlush'.issued, file)) = 1
             /\ \A i \in callsFor(lastFlush'.issued, file) :
                  IF pendingWrites[file] = JsNull
                  THEN lastFlush'.issued[i].op = "removeItem"
                  ELSE /\ lastFlush'.issued[i].op = "setItem"
                       /\ JSONparse(lastFlush'.issued[i].value) = pendingWrites[file]]_vars

\* C10 happens: a batch staged a key that had an unflushed entry, and the
\* flush after it issued the call for that key with the payload staged last
C10_Witness ==
  /\ lastFlush.any
  /\ \E file \in lastBatch.replaced :
       /\ file \in DOMAIN lastFlush.pending
       /\ lastFlush.pending[file] = lastBatch.staged[file]
       /\ callsFor(lastFlush.issued, file) # {}

\* ----------------------------------------------------------------------- C11
\* C11: a flush removes every entry from the pending set as it issues the
\* entry's backend call; an entry staged for a key while a call for that key
\* is in flight stays in the pending set when that call completes, and a later
\* flush issues it.
C11_RequeuedEntrySurvives ==
  [][/\ (Len(inflight') < Len(inflight) /\ restarted' = restarted)
        => pendingWrites' = pendingWrites
     /\ flushQueued' = flushQueued - 1
        => /\ DOMAIN pendingWrites' = {}
           /\ \A file \in DOMAIN pendingWrites :
                \E i \in (Len(inflight) + 1)..Len(inflight') : inflight'[i].key = file]_vars

\* C11 happens: a key was staged while a call for it was in flight, that call
\* has completed, and the entry then went out with a later flush
C11_Witness ==
  /\ lastFlush.any
  /\ \E file \in lastBatch.overtook :
       /\ file \in DOMAIN lastFlush.pending
       /\ lastFlush.pending[file] = lastBatch.staged[file]
       /\ Len(inflight) = 1
       /\ inflight[1].key = file
       /\ file \in DOMAIN storage
       /\ storage[file] # inflight[1].value

\* ----------------------------------------------------------------------- C12
\* the number of setItem and removeItem calls made so far
writeCalls(calls) == calls.setItem + calls.removeItem

\* C12: whenever bulkWrite runs, by a deferring hook or at once, every entry
\* that is pending is handed to the backend exactly once and leaves the
\* pending set, so that no later flush hands it over again; this holds while
\* calls of earlier flushes are still in flight.
C12_NoLossNoDuplication ==
  [][LET issuedNow == SubSeq(inflight', Len(inflight) + 1, Len(inflight'))
         byHook == flushQueued' = flushQueued - 1
         atOnce == ~inputs.deferred /\ proxyObject' # proxyObject
                   /\ lastBatch'.requests > 0
         handed == IF byHook THEN pendingWrites ELSE lastBatch'.staged
     IN (restarted' = restarted /\ (byHook \/ atOnce))
        => /\ Len(issuedNow) = Cardinality(DOMAIN handed)
           /\ \A file \in DOMAIN handed :
                Cardinality({ i \in DOMAIN issuedNow : issuedNow[i].key = file }) = 1
           /\ DOMAIN pendingWrites' = {}
           /\ writeCalls(backendCalls') = writeCalls(backendCalls) + Len(issuedNow)]_vars

\* C12 happens: a flush handed its entries over while calls of an earlier
\* flush were still in flight
C12_Witness ==
  /\ lastFlush.any
  /\ lastFlush.issued # <<>>
  /\ Len(inflight) > Len(lastFlush.issued)
  /\ DOMAIN pendingWrites = {}

\* ----------------------------------------------------------------------- C13
\* the key format of the specification: name-path for the record of a
\* WholeValue path, name-path.childKey for a child of a KeyedChildren path
keyOfFormat(key) ==
  \E path \in paths :
    LET whole == name \o <<"-">> \o path
        child == substring(key, Len(whole) + 1)
    IN IF strategy(path) = SingleFile THEN key = whole
       ELSE /\ startsWith(key, whole \o <<".">>)
            /\ child # <<>>
            /\ indexOf(child, ".") = 0

\* C13: every backend key the engine writes or deletes is name + "-" + path
\* for a WholeValue record and name + "-" + path + "." + childKey for a child
\* of a KeyedChildren path, the root path included.
C13_StorageKeyFormat ==
  /\ \A key \in DOMAIN pendingWrites : keyOfFormat(key)
  /\ \A i \in DOMAIN inflight : keyOfFormat(inflight[i].key)

\* ----------------------------------------------------------------------- C14
\* C14: once the status of an engine has been Loaded (or Error), no later
\* state of that engine has status Loading, whatever loads, caller mutations
\* and flushes follow.
C14_NoReturnToLoading ==
  [][(status \in {"loaded", "error"} /\ restarted' = restarted)
     => status' # "loading"]_vars

\* C14 happens: the status was Loaded, and a caller mutation and a flush came
\* after it
C14_Witness ==
  /\ status = "loaded"
  /\ callerSet # <<>>
  /\ lastFlush.any
  /\ lastFlush.issued # <<>>
  /\ inflight = <<>>

\* ----------------------------------------------------------------------- C15
\* C15: the fields of _persist agree: status is 'loading' iff loading is true
\* and loaded false, 'loaded' iff loading is false and loaded true; error is
\* non-null only with status 'error'; loading and loaded are never both true.
C15_StatusFieldsAgree ==
  LET persist == proxyObject.v[sPersist].v
  IN /\ persist.status = "loading" <=> (persist.loading /\ ~persist.loaded)
     /\ persist.status = "loaded" <=> (~persist.loading /\ persist.loaded)
     /\ persist.error # JsNull => persist.status = "error"
     /\ ~(persist.loading /\ persist.loaded)

\* C15 happens: the engine has written its status
C15_Witness ==
  /\ pc = "loaded"
  /\ loadedCount = 1
  /\ proxyObject.v[sPersist].v.loaded
  /\ ~proxyObject.v[sPersist].v.loading

\* ----------------------------------------------------------------------- C16
\* C16: if the load of a configured path fails (an enumerated key reads as
\* absent, the strategy is not recognized), the status does not become Loaded
\* and does not become Error; it is Loading in every later state.
C16_FailureLeavesLoading ==
  (\E path \in DOMAIN pathPc : pathPc[path] \in {"fileMissing", "unknownStrategy"})
  => status = "loading"

\* ----------------------------------------------------------------------- C20
\* C20: an engine calls getAllKeys at most once: exactly once when at least
\* one configured path uses KeyedChildren, however many there are, and never
\* when none does.
C20_GetAllKeysOnce ==
  backendCalls.getAllKeys =
    IF \E path \in paths : strategy(path) = MultiFile THEN 1 ELSE 0

\* C20 happens: two KeyedChildren paths have read their keys from the one
\* enumeration
C20_Witness ==
  /\ Cardinality({ path \in paths : strategy(path) = MultiFile }) = 2
  /\ loadsFinished
  /\ backendCalls.getItem > 0
  /\ backendCalls.getAllKeys = 1

\* ----------------------------------------------------------------------- C17
\* C17: when a setItem or removeItem fails after its entry has left the
\* pending set, the entry is not put back, no flush is requested and no
\* backend call is made for it: the write is dropped until a mutation stages
\* the key again.
C17_FailedWriteDropped ==
  [][(Len(inflight') < Len(inflight) /\ storage' = storage /\ restarted' = restarted)
     => /\ inflight' = Tail(inflight)
        /\ pendingWrites' = pendingWrites
        /\ flushQueued' = flushQueued
        /\ backendCalls' = backendCalls]_vars

\* C17 happens: the one setItem the engine made has failed; its key is not in
\* storage, nothing is pending and no flush is owed
C17_Witness ==
  /\ writeCalls(backendCalls) = 1
  /\ Len(lastFlush.issued) = 1
  /\ lastFlush.issued[1].op = "setItem"
  /\ lastFlush.issued[1].key \notin DOMAIN storage
  /\ inflight = <<>>
  /\ DOMAIN pendingWrites = {}
  /\ flushQueued = 0

\* ----------------------------------------------------------------------- C18
\* the places of the tree that a step changed
changedBy(before, after) == { loc \in Places : baseGet(before, loc) # baseGet(after, loc) }

\* C18: with a strategy map that has no root path, a caller's mutation at a
\* place that is not at or under any configured path stages no pending entry,
\* requests no flush and makes no backend call.
C18_Whitelisting ==
  [][(/\ inputs.persistStrategies.t = "object"
      /\ sEmpty \notin paths
      /\ mutations' = mutations + 1
      /\ \A loc \in changedBy(proxyObject, proxyObject') :
           \A path \in paths : ~isPrefix(toPath(path), loc))
     => /\ pendingWrites' = pendingWrites
        /\ flushQueued' = flushQueued
        /\ inflight' = inflight
        /\ backendCalls' = backendCalls]_vars

\* C18 happens: an engine without a root path is loaded and has an observer
\* attached, the caller has set count, which no path covers, and nothing was
\* staged, requested or written
C18_Witness ==
  /\ inputs.persistStrategies.t = "object"
  /\ sEmpty \notin paths
  /\ \A path \in paths : ~isPrefix(toPath(path), <<sCount>>)
  /\ attached # {}
  /\ mutations = 1
  /\ DOMAIN callerSet = {<<sCount>>}
  /\ lastBatch.kind = "caller"
  /\ lastBatch.fired = {}
  /\ DOMAIN pendingWrites = {}
  /\ flushQueued = 0
  /\ writeCalls(backendCalls) = 0

\* ----------------------------------------------------------------------- C19
\* the SingleFile paths whose load is outstanding and has a record to read
loadingWithRecord ==
  { path \in DOMAIN pathPc :
      /\ strategy(path) = SingleFile
      /\ pathPc[path] = "getItem"
      /\ filePath(path) \in DOMAIN storage }

\* C19: a caller's write at a SingleFile path whose load is outstanding and
\* has a record to read is not staged and not written, and the load puts the
\* record's value at the path.
C19_LoadingWindowWrite ==
  [][/\ (/\ mutations' = mutations + 1
         /\ \E path \in loadingWithRecord :
              \E loc \in changedBy(proxyObject, proxyObject') : isPrefix(toPath(path), loc))
        => /\ pendingWrites' = pendingWrites
           /\ inflight' = inflight
           /\ backendCalls' = backendCalls
     /\ \A path \in loadingWithRecord :
          pathPc'[path] # "getItem" /\ restarted' = restarted
          => LET v == JSONparse(storage[filePath(path)])
             IN IF isPersistingMainObject(path)
                THEN \A k \in keysOf(v) : proxyObject'.v[k] = v.v[k]
                ELSE get(proxyObject', path) = v]_vars

\* ----------------------------------------------------------------------- C21
\* _persist.version of a tree
versionOf(tree) == tree.v[sPersist].v.version

\* C21: once the startup of an engine has completed, _persist.version is the
\* configured version, and no step of an engine lowers _persist.version,
\* whatever records the storage holds.
C21_VersionMarker ==
  [][/\ versionOf(proxyObject') >= versionOf(proxyObject)
     /\ pc' = "loaded" => versionOf(proxyObject') = inputs.version]_vars

\* ----------------------------------------------------------------------- C22
\* the storage keys of a path: its file, or the files of its children
ownKey(path, key) ==
  IF strategy(path) = SingleFile THEN key = filePath(path)
  ELSE startsWith(key, leafFilePath(path, <<>>))

\* C22: the observer of a path is attached only when the path's own load has
\* finished, and a step of the path's own load stages no entry and issues no
\* backend write for a storage key of that path.
C22_LoadBeforeObserve ==
  [][\A path \in DOMAIN pathPc :
       (/\ pathPc[path] \in {"getItem", "reading"}
        /\ restarted' = restarted
        /\ pathPc'[path] # pathPc[path] \/ (path \in DOMAIN toRead /\ toRead'[path] # toRead[path]))
       => /\ pathPc'[path] = "attached" => (path \in DOMAIN toRead' => toRead'[path] = {})
          /\ \A file \in DOMAIN pendingWrites' :
               ownKey(path, file)
               => file \in DOMAIN pendingWrites /\ pendingWrites'[file] = pendingWrites[file]
          /\ \A i \in (Len(inflight) + 1)..Len(inflight') : ~ownKey(path, inflight'[i].key)]_vars

\* C22 happens: a path loaded a record that differs from the initial value,
\* its observer was subscribed after that, and nothing was staged or written
C22_Witness ==
  \E path \in attached :
    /\ path # sEmpty
    /\ strategy(path) = SingleFile
    /\ filePath(path) \in DOMAIN storage
    /\ get(proxyObject, path) = JSONparse(storage[filePath(path)])
    /\ get(proxyObject, path) # get(initialState, path)
    /\ mutations = 0
    /\ DOMAIN pendingWrites = {}
    /\ flushQueued = 0
    /\ writeCalls(backendCalls) = 0

\* ----------------------------------------------------------------------- C23
\* C23: the load of a WholeValue path leaves the tree unchanged when the
\* path's storage key is absent; when the key holds v, a path below the root
\* gets v as its value, and the root gets every top-level field of v while
\* every field of the tree that v does not have keeps its value (the initial
\* one when no caller and no other path has written).
C23_WholeValueReconciliation ==
  [][\A path \in DOMAIN pathPc :
       (pathPc[path] = "getItem" /\ pathPc'[path] # "getItem" /\ restarted' = restarted)
       => IF filePath(path) \notin DOMAIN storage THEN proxyObject' = proxyObject
          ELSE LET v == JSONparse(storage[filePath(path)])
               IN IF isPersistingMainObject(path)
                  THEN /\ keysOf(proxyObject') = keysOf(proxyObject) \cup keysOf(v)
                       /\ \A k \in keysOf(v) : proxyObject'.v[k] = v.v[k]
                       /\ \A k \in keysOf(proxyObject) \ keysOf(v) :
                            /\ proxyObject'.v[k] = proxyObject.v[k]
                            /\ (mutations = 0 /\ paths = {path})
                               => proxyObject'.v[k] = initialState.v[k]
                  ELSE get(proxyObject', path) = v]_vars

\* C23 happens: the root has loaded a record that has count and has no
\* photos; count is the stored one and photos the initial one
C23_Witness ==
  /\ rootWholeValue
  /\ sEmpty \in attached
  /\ filePath(sEmpty) \in DOMAIN storage
  /\ sPhotos \notin keysOf(JSONparse(storage[filePath(sEmpty)]))
  /\ mutations = 0
  /\ writeCalls(backendCalls) = 0
  /\ proxyObject.v[sCount] = JSONparse(storage[filePath(sEmpty)]).v[sCount]
  /\ proxyObject.v[sCount] # initialState.v[sCount]
  /\ proxyObject.v[sPhotos] = initialState.v[sPhotos]

\* ----------------------------------------------------------------------- C24
\* the last dot segment of a key, and the key without it
lastSegment(key) == toPath(key)[Len(toPath(key))]
withoutLastSegment(key) == join(sliceInit(toPath(key)), Dot)

\* the enumerated keys that the specification's filter passes for a path
keysOfFilter(keys, path) ==
  { k \in keys :
      /\ startsWith(k, name \o <<"-">>)
      /\ withoutLastSegment(k) = name \o <<"-">> \o path }

\* C24: the load of a KeyedChildren path reads exactly the enumerated keys
\* that start with name + "-" and that, without their last segment, are
\* name + "-" + path, and no other key; each payload read is set at
\* path + "." + childKey and nowhere else, for the root path as for any other.
C24_KeyedChildrenLoadFilter ==
  [][/\ (pc = "getAllKeys" /\ pc' # "getAllKeys")
        => \A path \in paths :
             strategy(path) = MultiFile => toRead'[path] = keysOfFilter(allKeys', path)
     /\ \A path \in DOMAIN toRead :
          \A key \in toRead[path] :
            (key \notin toRead'[path] /\ key \in DOMAIN storage /\ restarted' = restarted)
            => proxyObject' = set(proxyObject, path \o <<".">> \o lastSegment(key),
                                  JSONparse(storage[key]))]_vars

\* ----------------------------------------------------------------------- C25
\* C25: when getItem returns absent for a key that the enumeration listed for
\* a KeyedChildren path, the load of that path ends with an error; from then
\* on the path's observer is never attached, no mutation of its container is
\* staged or written, and the status does not become Loaded.
C25_MissingEnumeratedRecord ==
  [][\A path \in DOMAIN toRead :
       /\ \A key \in toRead[path] :
            (key \notin toRead'[path] /\ key \notin DOMAIN storage /\ restarted' = restarted)
            => pathPc'[path] = "fileMissing" /\ pc' = "rejected"
       /\ (pathPc[path] = "fileMissing" /\ restarted' = restarted)
          => /\ pathPc'[path] = "fileMissing"
             /\ status' # "loaded"
             /\ (mutations' = mutations + 1
                 /\ containerAt(proxyObject', path) # containerAt(proxyObject, path))
                => /\ pendingWrites' = pendingWrites
                   /\ flushQueued' = flushQueued
                   /\ inflight' = inflight
                   /\ backendCalls' = backendCalls]_vars

\* ----------------------------------------------------------------------- C26
\* a path with an intermediate segment that is missing from the tree of a new
\* proxy, or that is no container there
invalidPath(path) ==
  /\ Len(toPath(path)) >= 2
  /\ baseGet(newProxy(inputs.version), sliceInit(toPath(path))).t # "object"

\* C26: the setup of a configured path one of whose intermediate segments
\* does not exist or is no container fails at once: no backend read is ever
\* outstanding or made for the path, and the tree is not modified for it.
C26_InvalidPathFailsImmediately ==
  \A path \in paths :
    invalidPath(path)
    => /\ path \in DOMAIN pathPc => pathPc[path] \in Thrown
       /\ paths = {path} => backendCalls.getItem = 0
       /\ mutations = 0
          => baseGet(proxyObject, sliceInit(toPath(path)))
             = baseGet(newProxy(inputs.version), sliceInit(toPath(path)))

\* ----------------------------------------------------------------------- C27
\* C27: for a configured path with segments s1..sn whose intermediate
\* segments exist, the container on which the observer is attached is the
\* value reached by s1..s(n-1) from the root of the tree (the root itself when
\* n = 1) and the observed key is sn; for the empty path the container is the
\* root of the tree.
C27_PathResolution ==
  \A path \in paths :
    IF path = sEmpty THEN proxySubObject(proxyObject, path) = proxyObject
    ELSE LET segments == toPath(path)
             container == baseGet(proxyObject, sliceInit(segments))
         IN container.t = "object"
            => /\ proxySubObject(proxyObject, path) = container
               /\ pathKey(path) = segments[Len(segments)]

\* ----------------------------------------------------------------------- C28
\* the backend calls that a step has issued
issuedBy(before, after) == SubSeq(after, Len(before) + 1, Len(after))

\* C28: a flush calls removeItem exactly for the entries staged because a
\* child key was removed, and setItem of the serialized value for every entry
\* staged as a whole value or as an added or updated child, whatever
\* JSON-compatible value was staged, null included.  Stated of a batch whose
\* entries the default hook flushes at once.
C28_FlushDispatch ==
  [][(~inputs.deferred /\ Len(inflight') > Len(inflight) /\ restarted' = restarted)
     => LET issued == issuedBy(inflight, inflight')
            call(op, file, value) ==
              \E i \in DOMAIN issued :
                /\ issued[i].op = op
                /\ issued[i].key = file
                /\ op = "setItem" => issued[i].value = JSONstringify(value)
            leaves == { path \in lastBatch'.fired : strategy(path) = MultiFile }
            removed(path) ==
              keysOf(prevValue[path]) \ keysOf(containerAt(proxyObject', path))
            put(path) ==
              { k \in keysOf(containerAt(proxyObject', path)) :
                  \/ k \notin keysOf(prevValue[path])
                  \/ prevValue[path].v[k] # containerAt(proxyObject', path).v[k] }
        IN /\ \A path \in leaves :
                /\ \A k \in removed(path) : call("removeItem", leafFilePath(path, k), JsNull)
                /\ \A k \in put(path) :
                     call("setItem", leafFilePath(path, k),
                          containerAt(proxyObject', path).v[k])
           /\ \A path \in lastBatch'.fired \ leaves :
                call("setItem", filePath(path), lastBatch'.staged[filePath(path)])
           /\ \A i \in DOMAIN issued :
                issued[i].op = "removeItem"
                => \E path \in leaves :
                     \E k \in removed(path) : issued[i].key = leafFilePath(path, k)]_vars

\* ----------------------------------------------------------------------- C29
\* C29: with the default hooks the pending set is empty whenever an observer
\* callback has returned: every entry that a mutation staged has left the
\* pending set and its backend call has been issued before control is back
\* with the caller, and no flush is owed.
C29_DefaultHooksFlushAtOnce ==
  ~inputs.deferred => (DOMAIN pendingWrites = {} /\ flushQueued = 0)

\* C29 happens: with the default hooks a caller's batch staged entries; they
\* are in flight, and nothing is pending
C29_Witness ==
  /\ ~inputs.deferred
  /\ lastBatch.kind = "caller"
  /\ Cardinality(DOMAIN lastBatch.staged) = 2
  /\ \A file \in DOMAIN lastBatch.staged : \E i \in DOMAIN inflight : inflight[i].key = file
  /\ DOMAIN pendingWrites = {}

\* ----------------------------------------------------------------------- C30
\* C30: when the first engine, once Loaded, has added, updated and removed
\* children of a KeyedChildren container and all its flushes have completed,
\* a second engine built with the same configuration over the same storage
\* holds, once its load has completed, a container with the same child keys
\* and values, the children that the first engine removed being absent.
C30_RoundTripKeyedChildren ==
  (restarted /\ loadsFinished) =>
    \A path \in paths :
      (/\ strategy(path) = MultiFile
       /\ \E loc \in DOMAIN first.callerSet : isPrefix(toPath(path), loc))
      => containerAt(proxyObject, path) = containerAt(first.tree, path)

\* ----------------------------------------------------------------------- C31
\* C31: once the engine is Loaded, whenever the pending set is empty, no
\* flush is owed and every backend call has completed, the record stored at
\* the storage key of every WholeValue path that a caller has written since
\* decodes to the value the tree holds at that path (for the root path,
\* leaving _persist aside), whatever the order in which the backend completes
\* its calls.
C31_QuiescentConsistency ==
  (/\ pc = "loaded"
   /\ ~restarted
   /\ DOMAIN pendingWrites = {}
   /\ flushQueued = 0
   /\ inflight = <<>>)
  => \A path \in paths :
       (/\ strategy(path) = SingleFile
        /\ \E loc \in DOMAIN callerSet : isPrefix(toPath(path), loc))
       => /\ filePath(path) \in DOMAIN storage
          /\ LET stored == JSONparse(storage[filePath(path)])
             IN IF path = sEmpty
                THEN omit(stored, sPersist) = containerAt(proxyObject, path)
                ELSE stored = containerAt(proxyObject, path)

\* ----------------------------------------------------------------------- C32
\* a key that the engine named otherName wrote
writtenByOther(key) == startsWith(key, otherName \o <<"-">>)

\* C32: the load of the engine named name reads no record that the engine
\* named otherName wrote, and sets none into its tree, although name is a
\* prefix of otherName and otherName contains "-".
C32_NamespaceIsolation ==
  /\ \A path \in DOMAIN toRead : \A key \in toRead[path] : ~writtenByOther(key)
  /\ \A key \in DOMAIN storage :
       writtenByOther(key) => substring(key, Len(name) + 1) \notin keysOf(proxyObject)

====
